---- MODULE Spec2Model ----
(***************************************************************************)
(* Model of src/src/cwms/aisles.go: the NullString JSON codec, the         *)
(* AisleFilter statement builder, the three fetch operations and the two   *)
(* HTTP route handlers.                                                    *)
(*                                                                         *)
(* Text is a sequence of atoms.  Every literal of the source is one atom   *)
(* (or a few, where a literal holds a quote that a value can hold too);    *)
(* a value supplied from outside is a sequence of one-character atoms.     *)
(* fmt.Sprintf and strings.Join are concatenation of such sequences.       *)
(***************************************************************************)
EXTENDS Integers, Sequences, FiniteSets, TLC

\* ---------------------------------------------------------------- bounds
\* longest filter value compiled by the statement builder
MaxLen == 2
\* longest string a NullString starts with
MaxStr == 1
\* longest tail of a request path after the route's base path and a slash
MaxSeg == 1
\* most rows a result cursor yields
MaxRows == 2
\* longest byte sequence handed to UnmarshalJSON
MaxBytes == 2

\* the requests that are handled concurrently
Procs == {"r1", "r2"}

\* ------------------------------------------------------------- text atoms
Quote == "'"
Slash == "/"
All == <<"all">>
Empty == <<>>

\* characters a filter value can hold
FilterChars == {"a", "b", Quote}
\* characters a request path can hold after the base path
PathChars == {Slash, "a", "all"}

SeqsUpTo(S, n) == UNION {[1..k -> S] : k \in 0..n}

\* ------------------------------------------------------------ AisleFilter
AisleFilter == [Aisle : SeqsUpTo(FilterChars, MaxLen),
                Discrepancy : SeqsUpTo(FilterChars, MaxLen) \cup {All}]

sel == <<"select inventoryId, startTime, stopTime, sku, aisle, block, slot, shelf, displayName, discrepancy, imageUrl from v_inventory ">>
order == <<"order by aisle, block, slot">>

\* fmt.Sprintf(`aisle ='%s'`, v)
AislePred(v) == <<"aisle =", Quote>> \o v \o <<Quote>>
\* `discrepancy !="" `
DiscrepancyNotEmpty == <<"discrepancy !=\"\" ">>
\* fmt.Sprintf(`discrepancy ='%s'`, v)
DiscrepancyPred(v) == <<"discrepancy =", Quote>> \o v \o <<Quote>>

\* strings.Join(elems, sep)
RECURSIVE Join(_, _)
Join(elems, sep) ==
    IF Len(elems) = 0 THEN <<>>
    ELSE IF Len(elems) = 1 THEN elems[1]
    ELSE elems[1] \o sep \o Join(Tail(elems), sep)

\* where, with the test for "all" placed after the test for a value
where_AllAsValue(af) ==
    LET w1 == IF af.Aisle # Empty THEN <<AislePred(af.Aisle)>> ELSE <<>>
        w2 == IF af.Discrepancy # Empty
              THEN Append(w1, DiscrepancyPred(af.Discrepancy))
              ELSE IF af.Discrepancy = All
                   THEN Append(w1, DiscrepancyNotEmpty)
                   ELSE w1
    IN w2

\* the where slice toSqlStmt builds
where(af) ==
    LET w1 == IF af.Aisle # Empty THEN <<AislePred(af.Aisle)>> ELSE <<>>
        w2 == IF af.Discrepancy = All THEN Append(w1, DiscrepancyNotEmpty)
              ELSE IF af.Discrepancy # Empty
                   THEN Append(w1, DiscrepancyPred(af.Discrepancy))
                   ELSE w1
    IN w2

toSqlStmt(af) ==
    IF Len(where(af)) > 0
    THEN sel \o <<" where ">> \o Join(where(af), <<" and ">>) \o <<" ">> \o order
    ELSE sel \o <<" ">> \o order

\* ------------------------------------------------------- request routing
\* strings.Split(s, "/")
RECURSIVE Split(_)
Split(s) ==
    IF \A i \in 1..Len(s) : s[i] # Slash THEN <<s>>
    ELSE LET i == CHOOSE k \in 1..Len(s) :
                      s[k] = Slash /\ \A j \in 1..(k-1) : s[j] # Slash
         IN <<SubSeq(s, 1, i-1)>> \o Split(SubSeq(s, i+1, Len(s)))

\* lines 141-147: the filter handleApiAisles builds from the request path
AislesFilter(p) ==
    LET sl == Split(p)
        af0 == [Aisle |-> Empty, Discrepancy |-> Empty]
    IN IF Len(sl) > 0
       THEN LET ls == sl[Len(sl)]
            IN IF ls # Empty THEN [af0 EXCEPT !.Aisle = ls] ELSE af0
       ELSE af0

\* DiscrepanciesFilter without the default of line 175
DiscrepanciesFilter_NoDefault(p) ==
    LET sl == Split(p)
        af0 == [Aisle |-> Empty, Discrepancy |-> Empty]
    IN IF Len(sl) > 0
       THEN LET ls == sl[Len(sl)]
            IN IF ls # Empty THEN [af0 EXCEPT !.Discrepancy = ls] ELSE af0
       ELSE af0

\* lines 175-185: the filter handleApiDiscrepancies builds
DiscrepanciesFilter(p) ==
    LET sl == Split(p)
        af0 == [Aisle |-> Empty, Discrepancy |-> All]
    IN IF Len(sl) > 0
       THEN LET ls == sl[Len(sl)]
            IN IF ls # Empty THEN [af0 EXCEPT !.Discrepancy = ls] ELSE af0
       ELSE af0

\* the fixed statements of fetchAisles (line 89) and fetchAisleStats (line 213)
aislesStmt == <<"select distinct aisle from v_inventory order by aisle">>
aisleStatsStmt == <<"select distinct aisle, numberException, numberEmpty, numberOccupied, numberUnscanned, lastScanned from v_aisleStats">>

\* request paths a route can be entered with: its base path and any tail
Tails == {<<>>} \cup {<<Slash>> \o t : t \in SeqsUpTo(PathChars, MaxSeg)}
AislesPaths == {<<Slash, "aisles">> \o t : t \in Tails}
DiscrepanciesPaths == {<<Slash, "discrepancies">> \o t : t \in Tails}

NoFilter == [Aisle |-> Empty, Discrepancy |-> Empty]

\* ------------------------------------------------------------ NullString
DQ == "\""
BS == "\\"
NullToken == <<"null">>

\* characters a stored string can hold
StringChars == {"a", DQ, BS}
\* bytes an UnmarshalJSON input can hold ("null" stands for the four bytes
\* of the JSON null token, "1" for a JSON number)
ByteAtoms == {"a", DQ, BS, "null", "1"}

\* json.Marshal of a Go string: quoted, with quote and backslash escaped
RECURSIVE Escape(_)
Escape(s) ==
    IF s = <<>> THEN <<>>
    ELSE IF Head(s) = DQ \/ Head(s) = BS
         THEN <<BS, Head(s)>> \o Escape(Tail(s))
         ELSE <<Head(s)>> \o Escape(Tail(s))

jsonMarshal(s) == <<DQ>> \o Escape(s) \o <<DQ>>

\* the inside of a JSON string literal, unescaped; ok = FALSE if malformed
RECURSIVE Unescape(_)
Unescape(s) ==
    IF s = <<>> THEN [ok |-> TRUE, val |-> <<>>]
    ELSE IF Head(s) = BS
         THEN IF Len(s) >= 2 /\ s[2] \in {DQ, BS}
              THEN LET r == Unescape(Tail(Tail(s)))
                   IN [ok |-> r.ok, val |-> <<s[2]>> \o r.val]
              ELSE [ok |-> FALSE, val |-> <<>>]
         ELSE IF Head(s) = "a"
              THEN LET r == Unescape(Tail(s))
                   IN [ok |-> r.ok, val |-> <<Head(s)>> \o r.val]
              ELSE [ok |-> FALSE, val |-> <<>>]

\* json.Unmarshal(b, &str): the error and the string left in str.
\* null leaves str alone and succeeds; a number is a type error; anything
\* that is not one JSON value is a syntax error; errors leave str alone.
jsonUnmarshal(b, str) ==
    IF b = NullToken THEN [err |-> "nil", str |-> str]
    ELSE IF b = <<"1">> THEN [err |-> "UnmarshalTypeError", str |-> str]
    ELSE IF Len(b) >= 2 /\ b[1] = DQ /\ b[Len(b)] = DQ
              /\ Unescape(SubSeq(b, 2, Len(b) - 1)).ok
         THEN [err |-> "nil", str |-> Unescape(SubSeq(b, 2, Len(b) - 1)).val]
         ELSE [err |-> "SyntaxError", str |-> str]

\* MarshalJSON with the null token for an absent value
MarshalJSON_Null(n) ==
    IF ~n.Valid THEN [bytes |-> NullToken, err |-> "nil"]
    ELSE [bytes |-> jsonMarshal(n.String), err |-> "nil"]

\* lines 36-41
MarshalJSON(n) ==
    IF ~n.Valid THEN [bytes |-> <<DQ, DQ>>, err |-> "nil"]
    ELSE [bytes |-> jsonMarshal(n.String), err |-> "nil"]

\* lines 44-48: the NullString afterwards, and the error returned
UnmarshalJSON(n, b) ==
    LET r == jsonUnmarshal(b, n.String)
    IN [ns |-> [Valid |-> (r.err = "nil"), String |-> r.str], err |-> r.err]

\* lines 52-57
MarshalCSV(n) ==
    IF ~n.Valid THEN [bytes |-> <<>>, err |-> "nil"]
    ELSE [bytes |-> n.String, err |-> "nil"]

NullStrings == [Valid : BOOLEAN, String : SeqsUpTo(StringChars, MaxStr)]
JsonInputs == SeqsUpTo(ByteAtoms, MaxBytes)

VARIABLES
    \* ---- one request per element of Procs
    route,      \* "none" | "aisles" | "discrepancies" | "direct"
    path,       \* r.URL.Path
    pc,         \* position of the request in handler / fetch code
    af,         \* the handler's AisleFilter
    callee,     \* fetch operation the request runs
    stmt,       \* statement handed to db.Query
    cursor,     \* "none" | "open" | "closed": the *sql.Rows of the fetch
    closes,     \* number of rows.Close() calls
    pos,        \* rows yielded so far by rows.Next()
    result,     \* the named result (wl / asl / aisleList): scanned rows
    err,        \* the named result err: "nil" | "ExecutionError" | "MappingError"
    logs,       \* number of log.Println(err) calls of the handler
    emits,      \* number of jsonApi calls of the handler
    shape,      \* fourth argument of the jsonApi call: "none" | TRUE | FALSE
    emitted,    \* third argument of the jsonApi call
    \* ---- statement builder under test
    fs,         \* an AisleFilter
    sqlstmt,    \* result of fs.toSqlStmt()
    compiled,   \* toSqlStmt has run
    \* ---- NullString codec under test
    ns,         \* the NullString: [Valid, String]
    jop,        \* last codec operation: "none" | "marshal" | "unmarshal"
    jin,        \* bytes given to the last UnmarshalJSON
    jout,       \* bytes returned by the last MarshalJSON
    jerr,       \* error returned by the last codec operation
    jfmt,       \* format of the last marshal: "none" | "json" | "csv"
    jsrc        \* the NullString the bytes in jout were made from

reqVars == <<route, path, pc, af, callee, stmt, cursor, closes, pos, result,
             err, logs, emits, shape, emitted>>
sqlVars == <<fs, sqlstmt, compiled>>
jsonVars == <<ns, jop, jin, jout, jerr, jfmt, jsrc>>
vars == <<route, path, pc, af, callee, stmt, cursor, closes, pos, result,
          err, logs, emits, shape, emitted, fs, sqlstmt, compiled,
          ns, jop, jin, jout, jerr, jfmt, jsrc>>

AbsentNS == [Valid |-> FALSE, String |-> Empty]

InitReq ==
    /\ route = [p \in Procs |-> "none"]
    /\ path = [p \in Procs |-> Empty]
    /\ pc = [p \in Procs |-> "idle"]
    /\ af = [p \in Procs |-> NoFilter]
    /\ callee = [p \in Procs |-> "none"]
    /\ stmt = [p \in Procs |-> Empty]
    /\ cursor = [p \in Procs |-> "none"]
    /\ closes = [p \in Procs |-> 0]
    /\ pos = [p \in Procs |-> 0]
    /\ result = [p \in Procs |-> <<>>]
    /\ err = [p \in Procs |-> "nil"]
    /\ logs = [p \in Procs |-> 0]
    /\ emits = [p \in Procs |-> 0]
    /\ shape = [p \in Procs |-> "none"]
    /\ emitted = [p \in Procs |-> <<>>]

InitSql == fs = NoFilter /\ sqlstmt = Empty /\ compiled = FALSE

InitJson ==
    /\ ns = AbsentNS
    /\ jop = "none" /\ jin = Empty /\ jout = Empty /\ jerr = "nil"
    /\ jfmt = "none"
    /\ jsrc = AbsentNS

\* ------------------------------------------------------------- handlers
\* lines 136-150, 158-160: handleApiAisles up to the call of the fetch
handleApiAisles(p) ==
    /\ pc[p] = "idle"
    /\ \E u \in AislesPaths :
        /\ path' = [path EXCEPT ![p] = u]
        /\ af' = [af EXCEPT ![p] = AislesFilter(u)]
        /\ callee' = [callee EXCEPT ![p] =
                IF AislesFilter(u).Aisle = Empty
                THEN "fetchAisleStats" ELSE "FetchInventory"]
    /\ route' = [route EXCEPT ![p] = "aisles"]
    /\ pc' = [pc EXCEPT ![p] = "query"]
    /\ UNCHANGED <<stmt, cursor, closes, pos, result, err, logs, emits,
                   shape, emitted>>
    /\ UNCHANGED <<sqlVars, jsonVars>>

\* lines 171-188: handleApiDiscrepancies up to the call of FetchInventory
handleApiDiscrepancies(p) ==
    /\ pc[p] = "idle"
    /\ \E u \in DiscrepanciesPaths :
        /\ path' = [path EXCEPT ![p] = u]
        /\ af' = [af EXCEPT ![p] = DiscrepanciesFilter(u)]
    /\ callee' = [callee EXCEPT ![p] = "FetchInventory"]
    /\ route' = [route EXCEPT ![p] = "discrepancies"]
    /\ pc' = [pc EXCEPT ![p] = "query"]
    /\ UNCHANGED <<stmt, cursor, closes, pos, result, err, logs, emits,
                   shape, emitted>>
    /\ UNCHANGED <<sqlVars, jsonVars>>

\* a call of fetchAisles (no handler of this file calls it)
callFetchAisles(p) ==
    /\ pc[p] = "idle"
    /\ callee' = [callee EXCEPT ![p] = "fetchAisles"]
    /\ route' = [route EXCEPT ![p] = "direct"]
    /\ pc' = [pc EXCEPT ![p] = "query"]
    /\ UNCHANGED <<path, af, stmt, cursor, closes, pos, result, err, logs,
                   emits, shape, emitted>>
    /\ UNCHANGED <<sqlVars, jsonVars>>

\* ------------------------------------------------------ fetch operations
\* the statement each fetch operation hands to db.Query
StmtOf(p) ==
    IF callee[p] = "FetchInventory" THEN toSqlStmt(af[p])
    ELSE IF callee[p] = "fetchAisles" THEN aislesStmt
    ELSE aisleStatsStmt

\* rows, err = db.Query(...); if err != nil { return }; defer rows.Close()
\* The executor either fails (no cursor, return at once, nothing deferred)
\* or opens a cursor.
Query(p, f) ==
    /\ pc[p] = "query" /\ callee[p] = f
    /\ stmt' = [stmt EXCEPT ![p] = StmtOf(p)]
    /\ \/ /\ err' = [err EXCEPT ![p] = "ExecutionError"]
          /\ pc' = [pc EXCEPT ![p] = "returned"]
          /\ UNCHANGED cursor
       \/ /\ err' = [err EXCEPT ![p] = "nil"]
          /\ cursor' = [cursor EXCEPT ![p] = "open"]
          /\ pc' = [pc EXCEPT ![p] = "next"]
    /\ UNCHANGED <<route, path, af, callee, closes, pos, result, logs,
                   emits, shape, emitted>>
    /\ UNCHANGED <<sqlVars, jsonVars>>

\* for rows.Next() { ... } return: the cursor yields another row or is
\* exhausted, and then the function returns through its deferred call
Next_(p, f) ==
    /\ pc[p] = "next" /\ callee[p] = f
    /\ \/ /\ pos[p] < MaxRows
          /\ pos' = [pos EXCEPT ![p] = pos[p] + 1]
          /\ pc' = [pc EXCEPT ![p] = "scan"]
       \/ /\ pc' = [pc EXCEPT ![p] = "defer"]
          /\ UNCHANGED pos
    /\ UNCHANGED <<route, path, af, callee, stmt, cursor, closes, result,
                   err, logs, emits, shape, emitted>>
    /\ UNCHANGED <<sqlVars, jsonVars>>

\* Scan whose failure returns without running a deferred rows.Close()
Scan_ReturnWithoutClose(p, f) ==
    /\ pc[p] = "scan" /\ callee[p] = f
    /\ \/ /\ err' = [err EXCEPT ![p] = "MappingError"]
          /\ pc' = [pc EXCEPT ![p] = "returned"]
          /\ UNCHANGED result
       \/ /\ err' = [err EXCEPT ![p] = "nil"]
          /\ result' = [result EXCEPT ![p] = Append(result[p], pos[p])]
          /\ pc' = [pc EXCEPT ![p] = "next"]
    /\ UNCHANGED <<route, path, af, callee, stmt, cursor, closes, pos,
                   logs, emits, shape, emitted>>
    /\ UNCHANGED <<sqlVars, jsonVars>>

\* err = rows.Scan(...); if err != nil { return }; list = append(list, rec)
\* A bare return hands back the named results as they are.
Scan(p, f) ==
    /\ pc[p] = "scan" /\ callee[p] = f
    /\ \/ /\ err' = [err EXCEPT ![p] = "MappingError"]
          /\ pc' = [pc EXCEPT ![p] = "defer"]
          /\ UNCHANGED result
       \/ /\ err' = [err EXCEPT ![p] = "nil"]
          /\ result' = [result EXCEPT ![p] = Append(result[p], pos[p])]
          /\ pc' = [pc EXCEPT ![p] = "next"]
    /\ UNCHANGED <<route, path, af, callee, stmt, cursor, closes, pos,
                   logs, emits, shape, emitted>>
    /\ UNCHANGED <<sqlVars, jsonVars>>

\* the deferred rows.Close() runs as the function returns
DeferredClose(p, f) ==
    /\ pc[p] = "defer" /\ callee[p] = f
    /\ cursor' = [cursor EXCEPT ![p] = "closed"]
    /\ closes' = [closes EXCEPT ![p] = closes[p] + 1]
    /\ pc' = [pc EXCEPT ![p] = "returned"]
    /\ UNCHANGED <<route, path, af, callee, stmt, pos, result, err, logs,
                   emits, shape, emitted>>
    /\ UNCHANGED <<sqlVars, jsonVars>>

FetchInventoryQuery(p) == Query(p, "FetchInventory")
FetchInventoryNext(p) == Next_(p, "FetchInventory")
FetchInventoryScan(p) == Scan(p, "FetchInventory")
FetchInventoryClose(p) == DeferredClose(p, "FetchInventory")

fetchAislesQuery(p) == Query(p, "fetchAisles")
fetchAislesNext(p) == Next_(p, "fetchAisles")
fetchAislesScan(p) == Scan(p, "fetchAisles")
fetchAislesClose(p) == DeferredClose(p, "fetchAisles")

fetchAisleStatsQuery(p) == Query(p, "fetchAisleStats")
fetchAisleStatsNext(p) == Next_(p, "fetchAisleStats")
fetchAisleStatsScan(p) == Scan(p, "fetchAisleStats")
fetchAisleStatsClose(p) == DeferredClose(p, "fetchAisleStats")

\* ------------------------------------------------- handlers, after fetch
\* Respond that logs a fetch error and returns without emitting
Respond_ReturnOnError(p, flag) ==
    /\ pc[p] = "returned"
    /\ IF err[p] # "nil"
       THEN /\ logs' = [logs EXCEPT ![p] = logs[p] + 1]
            /\ UNCHANGED <<emits, emitted, shape>>
       ELSE /\ emits' = [emits EXCEPT ![p] = emits[p] + 1]
            /\ emitted' = [emitted EXCEPT ![p] = result[p]]
            /\ shape' = [shape EXCEPT ![p] = flag]
            /\ \E jsonApiFails \in BOOLEAN :
                 logs' = [logs EXCEPT ![p] = logs[p]
                             + (IF jsonApiFails THEN 1 ELSE 0)]
    /\ pc' = [pc EXCEPT ![p] = "done"]
    /\ UNCHANGED <<route, path, af, callee, stmt, cursor, closes, pos,
                   result, err>>
    /\ UNCHANGED <<sqlVars, jsonVars>>

\* if err != nil { log.Println(err) }
\* if err = jsonApi(w, r, list, flag); err != nil { log.Println(err) }
\* jsonApi is not part of this file: it returns nil or an error.
Respond(p, flag) ==
    /\ pc[p] = "returned"
    /\ emits' = [emits EXCEPT ![p] = emits[p] + 1]
    /\ emitted' = [emitted EXCEPT ![p] = result[p]]
    /\ shape' = [shape EXCEPT ![p] = flag]
    /\ \E jsonApiFails \in BOOLEAN :
         logs' = [logs EXCEPT ![p] = logs[p]
                     + (IF err[p] # "nil" THEN 1 ELSE 0)
                     + (IF jsonApiFails THEN 1 ELSE 0)]
    /\ pc' = [pc EXCEPT ![p] = "done"]
    /\ UNCHANGED <<route, path, af, callee, stmt, cursor, closes, pos,
                   result, err>>
    /\ UNCHANGED <<sqlVars, jsonVars>>

\* lines 150-157: handleApiAisles, aisle statistics branch
handleApiAislesStatsRespond(p) ==
    /\ route[p] = "aisles" /\ callee[p] = "fetchAisleStats"
    /\ Respond(p, FALSE)

\* lines 160-167: handleApiAisles, inventory branch
handleApiAislesInventoryRespond(p) ==
    /\ route[p] = "aisles" /\ callee[p] = "FetchInventory"
    /\ Respond(p, TRUE)

\* lines 188-196: handleApiDiscrepancies
handleApiDiscrepanciesRespond(p) ==
    /\ route[p] = "discrepancies"
    /\ Respond(p, FALSE)

Init == InitReq /\ InitSql /\ InitJson

Next ==
    \/ \E p \in Procs : handleApiAisles(p)
    \/ \E p \in Procs : handleApiDiscrepancies(p)
    \/ \E p \in Procs : callFetchAisles(p)
    \/ \E p \in Procs : FetchInventoryQuery(p)
    \/ \E p \in Procs : FetchInventoryNext(p)
    \/ \E p \in Procs : FetchInventoryScan(p)
    \/ \E p \in Procs : FetchInventoryClose(p)
    \/ \E p \in Procs : fetchAislesQuery(p)
    \/ \E p \in Procs : fetchAislesNext(p)
    \/ \E p \in Procs : fetchAislesScan(p)
    \/ \E p \in Procs : fetchAislesClose(p)
    \/ \E p \in Procs : fetchAisleStatsQuery(p)
    \/ \E p \in Procs : fetchAisleStatsNext(p)
    \/ \E p \in Procs : fetchAisleStatsScan(p)
    \/ \E p \in Procs : fetchAisleStatsClose(p)
    \/ \E p \in Procs : handleApiAislesStatsRespond(p)
    \/ \E p \in Procs : handleApiAislesInventoryRespond(p)
    \/ \E p \in Procs : handleApiDiscrepanciesRespond(p)

Spec == Init /\ [][Next]_vars

\* ------------------------------------------- statement builder, by itself
InitFilter == InitReq /\ InitJson
    /\ fs \in AisleFilter /\ sqlstmt = Empty /\ compiled = FALSE

\* sqlstmt = fs.toSqlStmt()
Compile ==
    /\ ~compiled
    /\ sqlstmt' = toSqlStmt(fs)
    /\ compiled' = TRUE
    /\ UNCHANGED <<fs, reqVars, jsonVars>>

NextFilter == Compile

SpecFilter == InitFilter /\ [][NextFilter]_vars

\* ------------------------------------------------ NullString, by itself
InitCodec == InitReq /\ InitSql
    /\ ns \in NullStrings
    /\ jop = "none" /\ jin = Empty /\ jout = Empty /\ jerr = "nil"
    /\ jfmt = "none" /\ jsrc = AbsentNS

\* bytes, err = ns.MarshalJSON()
DoMarshalJSON ==
    /\ jout' = MarshalJSON(ns).bytes
    /\ jerr' = MarshalJSON(ns).err
    /\ jsrc' = ns
    /\ jop' = "marshal" /\ jfmt' = "json"
    /\ jin' = Empty
    /\ UNCHANGED <<ns, reqVars, sqlVars>>

\* bytes, err = ns.MarshalCSV()
DoMarshalCSV ==
    /\ jout' = MarshalCSV(ns).bytes
    /\ jerr' = MarshalCSV(ns).err
    /\ jsrc' = ns
    /\ jop' = "marshal" /\ jfmt' = "csv"
    /\ jin' = Empty
    /\ UNCHANGED <<ns, reqVars, sqlVars>>

\* err = ns.UnmarshalJSON(b), for any bytes b or for the bytes last marshalled
DoUnmarshalJSON ==
    /\ \E b \in JsonInputs \cup {jout} :
        /\ jin' = b
        /\ ns' = UnmarshalJSON(ns, b).ns
        /\ jerr' = UnmarshalJSON(ns, b).err
    /\ jop' = "unmarshal"
    /\ UNCHANGED <<jout, jsrc, jfmt, reqVars, sqlVars>>

NextCodec == DoMarshalJSON \/ DoMarshalCSV \/ DoUnmarshalJSON

SpecCodec == InitCodec /\ [][NextCodec]_vars

\* =================================================================claims
Fetched(p) == pc[p] \in {"returned", "done"}
Handled(p) == route[p] \in {"aisles", "discrepancies"}

\* C1: a fetch operation that returns an error returns no records: after
\* the query failed or any row failed to scan, the returned list is empty.
C1_NoRecordsWithError ==
    \A p \in Procs : (Fetched(p) /\ err[p] # "nil") => result[p] = <<>>

\* C2: the Discrepancies route uses the filter discrepancy = "all" whenever
\* the path has no trailing value segment, that is for /discrepancies and
\* for a path whose last segment is empty.
C2_NoValueMeansAll ==
    \A p \in Procs :
        (route[p] = "discrepancies"
            /\ (path[p] = <<Slash, "discrepancies">>
                \/ path[p][Len(path[p])] = Slash))
        => af[p] = [Aisle |-> Empty, Discrepancy |-> All]

\* C3: GET /aisles is served by fetchAisleStats and never by
\* FetchInventory.
C3_AislesServesStats ==
    \A p \in Procs :
        (route[p] = "aisles" /\ path[p] = <<Slash, "aisles">>)
        => callee[p] = "fetchAisleStats"

\* C4: the shape argument given to the emitter is the same for every
\* inventory response (Discrepancies route, Aisles route with an aisle)
\* and differs from the one given with aisle statistics.
C4_ShapeByResponseKind ==
    \A p, q \in Procs :
        (pc[p] = "done" /\ pc[q] = "done" /\ Handled(p) /\ Handled(q))
        => ((callee[p] = callee[q]) <=> (shape[p] = shape[q]))

\* The constraints two filters have in common: aisle set or not,
\* discrepancy unset, "all" or a specific value.
SameConstraints(f, g) ==
    /\ (f.Aisle = Empty) <=> (g.Aisle = Empty)
    /\ (f.Discrepancy = Empty) <=> (g.Discrepancy = Empty)
    /\ (f.Discrepancy = All) <=> (g.Discrepancy = All)

\* C5: the statement text does not depend on the filter values: filters
\* with the same constraints present compile to the same text.
C5_ValuesNotInStatementText ==
    compiled =>
        \A g \in AisleFilter : SameConstraints(fs, g) => toSqlStmt(g) = sqlstmt

\* The statement of the reference rule of the specification, one case per
\* combination of constraints.
RefSelect == <<"select inventoryId, startTime, stopTime, sku, aisle, block, slot, shelf, displayName, discrepancy, imageUrl from v_inventory ">>
RefOrder == <<"order by aisle, block, slot">>
RefAisleEq(v) == <<"aisle =", "'">> \o v \o <<"'">>
RefDiscEq(v) == <<"discrepancy =", "'">> \o v \o <<"'">>
RefDiscNotEmpty == <<"discrepancy !=\"\" ">>
RefDisc(d) == IF d = <<"all">> THEN RefDiscNotEmpty ELSE RefDiscEq(d)
RefStatement(f) ==
    CASE f.Aisle = <<>> /\ f.Discrepancy = <<>> ->
            RefSelect \o <<" ">> \o RefOrder
      [] f.Aisle # <<>> /\ f.Discrepancy = <<>> ->
            RefSelect \o <<" where ">> \o RefAisleEq(f.Aisle)
                      \o <<" ">> \o RefOrder
      [] f.Aisle = <<>> /\ f.Discrepancy # <<>> ->
            RefSelect \o <<" where ">> \o RefDisc(f.Discrepancy)
                      \o <<" ">> \o RefOrder
      [] f.Aisle # <<>> /\ f.Discrepancy # <<>> ->
            RefSelect \o <<" where ">> \o RefAisleEq(f.Aisle) \o <<" and ">>
                      \o RefDisc(f.Discrepancy) \o <<" ">> \o RefOrder

HasWhereClause(t) == Len(t) > 1 /\ t[2] = " where "
EndsWithOrdering(t) == Len(t) >= 1 /\ t[Len(t)] = "order by aisle, block, slot"

\* C6: toSqlStmt yields the statement of the reference rule: a WHERE
\* clause iff a constraint is set, the predicate of each constraint that
\* is set, AND between two predicates, and the ordering at the end.
C6_StatementOfReferenceRule ==
    compiled =>
        /\ sqlstmt = RefStatement(fs)
        /\ HasWhereClause(sqlstmt) <=> (fs.Aisle # <<>> \/ fs.Discrepancy # <<>>)
        /\ EndsWithOrdering(sqlstmt)

C6_Witness ==
    /\ compiled
    /\ fs.Aisle # <<>> /\ fs.Discrepancy \notin {<<>>, <<"all">>}
    /\ \E i \in 1..Len(sqlstmt) : sqlstmt[i] = " and "

C8_OneEmissionAfterFetch ==
    \A p \in Procs : Handled(p) =>
        /\ pc[p] = "done" => (emits[p] = 1 /\ emitted[p] = result[p])
        /\ pc[p] # "done" => emits[p] = 0
        /\ (pc[p] = "done" /\ err[p] # "nil") => logs[p] >= 1

C8_Witness ==
    \E p \in Procs :
        /\ Handled(p) /\ pc[p] = "done" /\ err[p] = "MappingError"
        /\ emits[p] = 1 /\ logs[p] >= 1

\* C9: a cursor the executor opened is closed exactly once before the
\* fetch returns, on every exit path; nothing is closed when the query
\* failed; no cursor is open outside its own request's fetch.
C9_CursorReleasedOnce ==
    \A p \in Procs :
        /\ closes[p] <= 1
        /\ cursor[p] = "open" => pc[p] \in {"next", "scan", "defer"}
        /\ Fetched(p) =>
            IF err[p] = "ExecutionError"
            THEN cursor[p] = "none" /\ closes[p] = 0
            ELSE cursor[p] = "closed" /\ closes[p] = 1

C9_Witness ==
    \E p, q \in Procs :
        /\ p # q
        /\ Fetched(p) /\ err[p] = "MappingError" /\ closes[p] = 1
        /\ cursor[q] = "open"

CountAnd(t) == Cardinality({i \in 1..Len(t) : t[i] = " and "})

====
